---- MODULE Spec2Model ----
(***************************************************************************)
(* Model of aal/webapp/static/main.js: the live preview loop (drawFrame),  *)
(* the plan loader (generatePlan) and the WebM export controller           *)
(* (renderVideo, renderWithManualFrames, renderWithTimedFrames) together   *)
(* with the MediaRecorder callbacks it installs.                           *)
(*                                                                         *)
(* JavaScript runs one task at a time.  An action of this model is one     *)
(* task: a click handler, an animation-frame callback, a timer callback,   *)
(* a fetch completion or a recorder event, followed by every microtask it  *)
(* makes runnable (the continuation of an async function whose awaited     *)
(* promise is already settled).  An async function therefore advances from *)
(* one pending await to the next within a single action.                   *)
(***************************************************************************)
EXTENDS Integers, Sequences, FiniteSets, TLC

----------------------------------------------------------------------------
(* Program constants, main.js lines 10-14.                                 *)

TOTAL_DURATION_MS == 120000
SEGMENT_DURATION_MS == 6000
FPS == 30

\* Math.round(x / y) for x >= 0, y > 0: the nearest integer, halves up.
RoundDiv(x, y) == (2 * x + y) \div (2 * y)

\* FRAME_INTERVAL_MS = 1000 / FPS is not an integer; FRAMES_PER_SEGMENT =
\* Math.round(SEGMENT_DURATION_MS / (1000 / FPS)) is computed on the fraction.
FRAMES_PER_SEGMENT == RoundDiv(SEGMENT_DURATION_MS * FPS, 1000)

\* The number of segments of a plan issued by the planning service
\* (twenty 6-second segments fill TOTAL_DURATION_MS).
PLAN_SEGMENTS == TOTAL_DURATION_MS \div SEGMENT_DURATION_MS

----------------------------------------------------------------------------
(* Bounds of the model.                                                    *)

\* The planning service issues MaxPlans different plans in Spec.
MaxPlans == 2
\* Segments of a plan in the interleaving specification Spec (a real plan
\* has PLAN_SEGMENTS of them, which SpecFull uses).
NumSegments == 1
\* The preview epoch ages at most MaxTicks segment durations.
MaxTicks == 1
\* The preview callback times of SpecClock: every millisecond of two runs
\* through the timeline and of the beginning of a third.
MaxNow == 250000

----------------------------------------------------------------------------
(* Values.                                                                 *)

\* A plan: its identity and the length of its render_segments, whose entry
\* i has index i.  `let plan = null`.
NULL == [id |-> 0, segments |-> 0]
Plans == [id : 1 .. MaxPlans, segments : {NumSegments}]
FullPlan == [id |-> 1, segments |-> PLAN_SEGMENTS]

\* plan.render_segments.length
Len_render_segments(p) == p.segments

\* The preview epoch.  The clock enters the program only as the difference
\* timestamp - animationStart (line 66), so the model keeps that difference:
\* epochAge is performance.now() - animationStart in milliseconds, and
\* NoEpoch while animationStart is null (line 17).
NoEpoch == -1

\* What the browser answers to one export: the track of captureStream(0)
\* ("none": no video track, "plain": a track without requestFrame, "manual":
\* a track with requestFrame), whether captureStream(FPS) has a video track,
\* whether a MediaRecorder can be constructed on the stream.
\* An answer the code does not ask for in an export is left at FALSE: the
\* fixed-rate source after a manual track, the recorder without a track.
Capabilities ==
  {c \in [zero : {"none", "plain", "manual"}, fixed : BOOLEAN,
          recorder : BOOLEAN] :
     /\ c.zero = "manual" => ~c.fixed
     /\ (c.zero # "manual" /\ ~c.fixed) => ~c.recorder}

\* renderStatus.textContent: a message, or the progress line with its
\* percentage (pct = -1 when the text is not a progress line).
Text(t) == [text |-> t, pct |-> -1]
Progress(n) == [text |-> "Rendering deterministic WebM... %", pct |-> n]

MsgNoPlan == Text("Generate a plan before exporting the video.")
MsgNoCapture == Text("Canvas captureStream is unavailable in this browser.")
MsgBusy == Text("Rendering already in progress.")
MsgRendering == Text("Rendering deterministic WebM...")
MsgReady == Text("Download ready: aal-deterministic-video.webm")
MsgNoTrack == Text("Unable to access a video track for capture.")
MsgNoRecorder == Text("MediaRecorder API is unavailable in this browser")
MsgFault == Text("Recording failed: unknown error")
MsgNoData == Text("No video data was captured.")
MsgTypeError == Text("TypeError: Cannot read properties of null")

\* The canvas surface: blank background, a complete segment frame, or a
\* frame whose drawing was cut short by an exception.  A frame shows segment
\* seg of plan `plan` at progress num/den, with the overlay "Segment seg+1 /
\* total".
Blank == [kind |-> "blank", plan |-> 0, seg |-> 0, num |-> 0, den |-> 1, total |-> 0]
Frame(p, i, n, d, t) ==
  [kind |-> "frame", plan |-> p.id, seg |-> i, num |-> n, den |-> d, total |-> t]
Partial(p, i, n, d) ==
  [kind |-> "partial", plan |-> p.id, seg |-> i, num |-> n, den |-> d, total |-> 0]

----------------------------------------------------------------------------
VARIABLES
  \* module-level state of main.js
  plan, epochAge, isRenderingVideo,
  \* DOM state the handlers write
  buttonDisabled, renderButtonDisabled, renderStatus, canvas,
  \* the environment
  hasCaptureStream, previewPending, service,
  \* generatePlan: the await it is suspended at
  gpc,
  \* renderVideo: the await it is suspended at, and its locals
  rpc, manualFrameSupport, track, liveTracks,
  recState, chunks, stopCalled, recordingPromise,
  \* renderWithManualFrames / renderWithTimedFrames locals
  loopPlan, totalFrames, segPos, frameIndex, renderedFrames,
  \* observations of the session (history, not program state)
  sinkCount, sinkLog, drawnCount, loopReturn, status, trail, downloads,
  lastPct, faultSeen, planCleared, activeSessions

envVars == <<hasCaptureStream, previewPending, service>>
planVars == <<plan, buttonDisabled, gpc>>
vars == <<plan, epochAge, isRenderingVideo, buttonDisabled,
          renderButtonDisabled, renderStatus, canvas, hasCaptureStream,
          previewPending, service, gpc, rpc, manualFrameSupport, track, liveTracks,
          recState, chunks, stopCalled, recordingPromise,
          loopPlan, totalFrames, segPos, frameIndex, renderedFrames,
          sinkCount, sinkLog, drawnCount, loopReturn, status, trail,
          downloads, lastPct, faultSeen, planCleared, activeSessions>>

----------------------------------------------------------------------------
(* The state a task of renderVideo works on, as one record: the task's     *)
(* statements are applied to it in program order and the result is         *)
(* committed at the end of the action.  exc names a pending exception.     *)

Cur ==
  [epochAge |-> epochAge, isRenderingVideo |-> isRenderingVideo,
   renderButtonDisabled |-> renderButtonDisabled, renderStatus |-> renderStatus,
   canvas |-> canvas, rpc |-> rpc, manualFrameSupport |-> manualFrameSupport,
   track |-> track, liveTracks |-> liveTracks,
   recState |-> recState, chunks |-> chunks, stopCalled |-> stopCalled,
   recordingPromise |-> recordingPromise, loopPlan |-> loopPlan,
   totalFrames |-> totalFrames, segPos |-> segPos, frameIndex |-> frameIndex,
   renderedFrames |-> renderedFrames, sinkCount |-> sinkCount,
   sinkLog |-> sinkLog, drawnCount |-> drawnCount, loopReturn |-> loopReturn,
   status |-> status, trail |-> trail, downloads |-> downloads,
   lastPct |-> lastPct, faultSeen |-> faultSeen, planCleared |-> planCleared,
   activeSessions |-> activeSessions,
   exc |-> "none"]

\* The record is evaluated once and then assigned field by field.
Commit(result) ==
  \E st \in {result} :
    /\ epochAge' = st.epochAge
    /\ isRenderingVideo' = st.isRenderingVideo
    /\ renderButtonDisabled' = st.renderButtonDisabled
    /\ renderStatus' = st.renderStatus
    /\ canvas' = st.canvas
    /\ rpc' = st.rpc
    /\ manualFrameSupport' = st.manualFrameSupport
    /\ track' = st.track
    /\ liveTracks' = st.liveTracks
    /\ recState' = st.recState
    /\ chunks' = st.chunks
    /\ stopCalled' = st.stopCalled
    /\ recordingPromise' = st.recordingPromise
    /\ loopPlan' = st.loopPlan
    /\ totalFrames' = st.totalFrames
    /\ segPos' = st.segPos
    /\ frameIndex' = st.frameIndex
    /\ renderedFrames' = st.renderedFrames
    /\ sinkCount' = st.sinkCount
    /\ sinkLog' = st.sinkLog
    /\ drawnCount' = st.drawnCount
    /\ loopReturn' = st.loopReturn
    /\ status' = st.status
    /\ trail' = st.trail
    /\ downloads' = st.downloads
    /\ lastPct' = st.lastPct
    /\ faultSeen' = st.faultSeen
    /\ planCleared' = st.planCleared
    /\ activeSessions' = st.activeSessions

\* The session moves to state s of the export state machine.
Mark(st, s) == [st EXCEPT !.status = s, !.trail = Append(@, s)]

----------------------------------------------------------------------------
(* Helpers of the export, main.js lines 75-100 and 289-293.                *)

Min(a, b) == IF a < b THEN a ELSE b
Max(a, b) == IF a > b THEN a ELSE b

\* updateRenderStatus: Math.min(100, Math.round(progress / safeTotal * 100)).
Percentage(progress, total) ==
  Min(100, RoundDiv(progress * 100, Max(total, 1)))

updateRenderStatus(st, progress, total) ==
  [st EXCEPT !.renderStatus = Progress(Percentage(progress, total)),
             !.lastPct = Percentage(progress, total)]

\* drawSegmentFrame(segment, progress) for segment i of plan p and progress
\* n/d.  No segment (index out of range): return at once.  The overlay
\* reads plan.render_segments.length of the module-level plan, after the
\* background and the gradient are drawn: with plan = null that read throws.
drawSegmentFrame(st, p, i, n, d) ==
  IF ~(0 <= i /\ i < Len_render_segments(p)) THEN st
  ELSE IF plan = NULL
       THEN [st EXCEPT !.canvas = Partial(p, i, n, d), !.exc = "TypeError"]
       ELSE [st EXCEPT !.canvas = Frame(p, i, n, d, Len_render_segments(plan))]

\* What a frame taken from surface c shows: the pair (segment, frame) of a
\* complete segment frame, NoPair for a blank or unfinished surface.
NoPair == <<-1, -1>>
Shown(c) == IF c.kind = "frame" THEN <<c.seg, c.num>> ELSE NoPair

\* track.requestFrame(): the surface content is the next output frame.
requestFrame(st) ==
  [st EXCEPT !.sinkCount = @ + 1,
             !.sinkLog = Append(@, Shown(st.canvas))]

----------------------------------------------------------------------------
(* The end of renderVideo, main.js lines 206-242.                          *)

\* recorder.stop()
RecorderStop(s) == IF s = "recording" THEN "stopping" ELSE s

\* stopRecording: `() => {}` until the recorder exists, then lines 206-211.
stopRecording(st) ==
  IF st.recState = "none" \/ st.stopCalled THEN st
  ELSE [st EXCEPT !.stopCalled = TRUE, !.recState = RecorderStop(@)]

\* track.stop() of the track the local `track` names.
StopTrack(st) == [st EXCEPT !.liveTracks = @ \ {st.track}]

\* renderVideo returns: the locals of the render loop are gone, and with
\* them the running observations of the loop.
EndLoop(st) ==
  [st EXCEPT !.segPos = 0, !.frameIndex = 0, !.renderedFrames = 0,
             !.sinkCount = 0, !.sinkLog = <<>>, !.drawnCount = 0,
             !.lastPct = -1, !.rpc = "idle", !.exc = "none"]

\* Variant: the finally block does not restart the preview epoch.
Finally_KeepsEpoch(st) ==
  [EndLoop(StopTrack(st)) EXCEPT !.renderButtonDisabled = FALSE,
                                 !.isRenderingVideo = FALSE,
                                 !.activeSessions = @ - 1]

\* Variant: the finally block does not stop the track.
Finally_KeepsTrack(st) ==
  [EndLoop(st) EXCEPT !.renderButtonDisabled = FALSE,
                      !.epochAge = 0,
                      !.isRenderingVideo = FALSE,
                      !.activeSessions = @ - 1]

\* finally, lines 235-242.
Finally(st) ==
  [EndLoop(StopTrack(st)) EXCEPT !.renderButtonDisabled = FALSE,
                                 !.epochAge = 0,
                                 !.isRenderingVideo = FALSE,
                                 !.activeSessions = @ - 1]

\* catch, lines 232-234, then finally.
Catch(st, msg) ==
  Finally(Mark([stopRecording(st) EXCEPT !.renderStatus = msg], "Failed"))

\* lines 223-231, then finally: the blob is offered as a download.
Succeed(st) ==
  Finally(Mark([st EXCEPT !.downloads = @ + 1, !.renderStatus = MsgReady],
               "Complete"))

RejectionMessage(p) ==
  IF p = "fault" THEN MsgFault ELSE MsgNoData

\* `await recordingPromise`, line 222: suspend while it is pending.
AwaitRecording(st) ==
  CASE st.recordingPromise = "pending" -> [st EXCEPT !.rpc = "finalizing"]
    [] st.recordingPromise = "blob" -> Succeed(st)
    [] OTHER -> Catch(st, RejectionMessage(st.recordingPromise))

\* What the render loop had done when it returned.
NotReturned == [emitted |-> -1, drawn |-> -1, pct |-> -1]
Returned(st) ==
  [emitted |-> st.sinkCount, drawn |-> st.drawnCount, pct |-> st.lastPct]

\* Variant: the recorder is not told to stop when the loop has returned.
AfterLoop_NoStop(st) ==
  AwaitRecording(Mark([st EXCEPT !.loopReturn = Returned(st)], "Finalizing"))

\* lines 221-222, reached when the render loop returned.
AfterLoop(st) ==
  AwaitRecording(Mark(stopRecording([st EXCEPT !.loopReturn = Returned(st)]),
                      "Finalizing"))

----------------------------------------------------------------------------
(* The render loops, main.js lines 245-287.  Both iterate the array        *)
(* plan.render_segments that was current when the loop began (loopPlan):   *)
(* `for (const segment of plan.render_segments)` keeps its iterator.       *)
(* (segPos, frameIndex) is the pair the loop renders next.  A loop         *)
(* operator returns the record with rpc = "manual" or "timed" when it      *)
(* suspended at an await, rpc = "returned" when the function returned, or  *)
(* with exc set when a statement threw.                                    *)

\* The loop rendered one frame.
Drawn(st) == [st EXCEPT !.drawnCount = @ + 1]

\* frameIndex += 1, and the next segment when the inner loop ends.
Advance(st) ==
  IF st.frameIndex + 1 < FRAMES_PER_SEGMENT
  THEN [st EXCEPT !.frameIndex = @ + 1]
  ELSE [st EXCEPT !.frameIndex = 0, !.segPos = @ + 1]

\* lines 246-249 and 269-272.
BeginLoop(st) ==
  LET t == Len_render_segments(plan) * FRAMES_PER_SEGMENT
  IN updateRenderStatus(
       [st EXCEPT !.loopPlan = plan, !.totalFrames = t, !.segPos = 0,
                  !.frameIndex = 0, !.renderedFrames = 0], 0, t)

\* Variant: the block test of lines 257 and 279 holds after every frame.
BlockDone_EveryFrame(n) == n % 1 = 0

\* `renderedFrames % FPS === 0`, lines 257 and 279.
BlockDone(n) == n % FPS = 0

\* plan.render_segments[plan.render_segments.length - 1] drawn at progress 1,
\* lines 263 and 285: the read of the module-level plan throws when it is
\* null.
TerminalFrame(st) ==
  IF plan = NULL THEN [st EXCEPT !.exc = "TypeError"]
  ELSE LET d == drawSegmentFrame(st, plan, Len_render_segments(plan) - 1,
                                 FRAMES_PER_SEGMENT, FRAMES_PER_SEGMENT)
       IN IF d.exc # "none" THEN d ELSE Drawn(d)

\* Variant: the terminal frame is rendered but not pushed to the track.
ManualTail_NoPush(st) ==
  LET d == TerminalFrame(st)
  IN IF d.exc # "none" THEN d
     ELSE [updateRenderStatus(d, d.totalFrames, d.totalFrames)
             EXCEPT !.rpc = "returned"]

\* lines 263-265.
ManualTail(st) ==
  LET d == TerminalFrame(st)
  IN IF d.exc # "none" THEN d
     ELSE [updateRenderStatus(requestFrame(d), d.totalFrames, d.totalFrames)
             EXCEPT !.rpc = "returned"]

\* lines 251-262, from the frame at (segPos, frameIndex) up to the next
\* `await yieldToBrowser()` or the end of the loop.
RECURSIVE ManualFrames(_)
ManualFrames(st) ==
  IF st.segPos >= Len_render_segments(st.loopPlan) THEN ManualTail(st)
  ELSE LET d == drawSegmentFrame(st, st.loopPlan, st.segPos, st.frameIndex,
                                 FRAMES_PER_SEGMENT)
       IN IF d.exc # "none" THEN d
          ELSE LET r == Advance([requestFrame(Drawn(d))
                                   EXCEPT !.renderedFrames = @ + 1])
               IN IF BlockDone(r.renderedFrames)
                  THEN [updateRenderStatus(r, r.renderedFrames, r.totalFrames)
                          EXCEPT !.rpc = "manual"]
                  ELSE ManualFrames(r)

\* lines 285-286.
TimedTail(st) ==
  LET d == TerminalFrame(st)
  IN IF d.exc # "none" THEN d
     ELSE [updateRenderStatus(d, d.totalFrames, d.totalFrames)
             EXCEPT !.rpc = "returned"]

\* Variant: the timed loop computes progress from frameIndex + 1.
TimedFrame_NextProgress(st) ==
  IF st.segPos >= Len_render_segments(st.loopPlan) THEN TimedTail(st)
  ELSE LET d == drawSegmentFrame(st, st.loopPlan, st.segPos,
                                 st.frameIndex + 1, FRAMES_PER_SEGMENT)
       IN IF d.exc # "none" THEN d
          ELSE LET r == [Drawn(d) EXCEPT !.renderedFrames = @ + 1]
               IN [(IF BlockDone(r.renderedFrames)
                    THEN updateRenderStatus(r, r.renderedFrames, r.totalFrames)
                    ELSE r) EXCEPT !.rpc = "timed"]

\* lines 274-283: render the frame at (segPos, frameIndex) and suspend at
\* `await waitForInterval(FRAME_INTERVAL_MS)` with that frame on the surface.
TimedFrame(st) ==
  IF st.segPos >= Len_render_segments(st.loopPlan) THEN TimedTail(st)
  ELSE LET d == drawSegmentFrame(st, st.loopPlan, st.segPos, st.frameIndex,
                                 FRAMES_PER_SEGMENT)
       IN IF d.exc # "none" THEN d
          ELSE LET r == [Drawn(d) EXCEPT !.renderedFrames = @ + 1]
               IN [(IF BlockDone(r.renderedFrames)
                    THEN updateRenderStatus(r, r.renderedFrames, r.totalFrames)
                    ELSE r) EXCEPT !.rpc = "timed"]

\* The timer of waitForInterval fired: one frame interval has passed since
\* the frame at (segPos, frameIndex) was rendered, in which the fixed-rate
\* capture source of captureStream(FPS), line 175, took its sample of the
\* surface; the loop goes on with the next frame.
TimedHeld(st) ==
  Advance([st EXCEPT !.sinkCount = @ + 1])

ExcMessage(e) ==
  CASE e = "NoTrack" -> MsgNoTrack
    [] e = "NoRecorder" -> MsgNoRecorder
    [] OTHER -> MsgTypeError

\* What renderVideo does with the result of a step inside its try block.
Continue(st) ==
  CASE st.exc # "none" -> Catch(st, ExcMessage(st.exc))
    [] st.rpc = "returned" -> AfterLoop(st)
    [] OTHER -> st

----------------------------------------------------------------------------
(* renderVideo, main.js lines 144-243.                                     *)

\* Variant: the plan test of line 145 is missing.
NoPlan_Never == FALSE

\* `if (!plan)`, line 145.
NoPlan == plan = NULL

\* Variant: the captureStream test of line 149 is missing.
NoCaptureStream_Never == FALSE

\* `if (!canvas.captureStream)`, line 149.
NoCaptureStream == ~hasCaptureStream

\* Variant: the re-entrancy test of line 153 is missing.
GuardHeld_Never == FALSE

\* `if (isRenderingVideo)`, line 153.
GuardHeld == isRenderingVideo

\* Boolean(track && typeof track.requestFrame === "function"), line 170.
ManualSupport(zero) == zero = "manual"

\* lines 158-165: the guard is taken and the locals of a new session exist.
OpenSession(st) ==
  [st EXCEPT !.isRenderingVideo = TRUE, !.renderButtonDisabled = TRUE,
             !.renderStatus = MsgRendering, !.epochAge = 0,
             !.track = "none", !.liveTracks = {},
             !.manualFrameSupport = FALSE, !.recState = "none", !.chunks = 0,
             !.stopCalled = FALSE, !.recordingPromise = "pending",
             !.loopPlan = NULL, !.totalFrames = 0, !.segPos = 0,
             !.frameIndex = 0, !.renderedFrames = 0, !.sinkCount = 0,
             !.sinkLog = <<>>, !.drawnCount = 0, !.loopReturn = NotReturned,
             !.status = "Idle",
             !.trail = <<"Idle">>, !.downloads = 0, !.lastPct = -1,
             !.faultSeen = FALSE, !.planCleared = FALSE,
             !.activeSessions = @ + 1]

\* stream.getVideoTracks()[0] || null of a new capture stream: the track
\* `name` is live once acquired, and the local `track` names it.
GetTrack(st, present, name) ==
  IF present
  THEN [st EXCEPT !.track = name, !.liveTracks = @ \cup {name}]
  ELSE [st EXCEPT !.track = "none"]

\* Variant: the zero-rate track is not stopped before the fallback.
AcquireTrack_KeepsZero(st, caps) ==
  LET s0 == GetTrack(st, caps.zero # "none", "zero")
      s1 == [s0 EXCEPT !.manualFrameSupport = ManualSupport(caps.zero)]
      s3 == IF ~s1.manualFrameSupport
            THEN GetTrack(s1, caps.fixed, "fixed") ELSE s1
  IN IF s3.track = "none" THEN [s3 EXCEPT !.exc = "NoTrack"] ELSE s3

\* lines 168-180: the capture source and its video track.
AcquireTrack(st, caps) ==
  LET s0 == GetTrack(st, caps.zero # "none", "zero")
      s1 == [s0 EXCEPT !.manualFrameSupport = ManualSupport(caps.zero)]
      s2 == IF ~s1.manualFrameSupport /\ s1.track # "none"
            THEN StopTrack(s1) ELSE s1
      s3 == IF ~s2.manualFrameSupport
            THEN GetTrack(s2, caps.fixed, "fixed") ELSE s2
  IN IF s3.track = "none" THEN [s3 EXCEPT !.exc = "NoTrack"] ELSE s3

\* lines 182-213: selectMediaRecorder throws when no recorder can be made;
\* otherwise the callbacks are installed and recorder.start() is called.
StartRecorder(st, caps) ==
  IF ~caps.recorder THEN [st EXCEPT !.exc = "NoRecorder"]
  ELSE Mark([st EXCEPT !.recState = "recording"], "Capturing")

\* lines 215-219: the two-way branch, run up to the loop's first await.
RenderLoop(st) ==
  IF st.manualFrameSupport /\ st.track # "none"
  THEN ManualFrames(BeginLoop(st))
  ELSE TimedFrame(BeginLoop(st))

\* lines 158-219 in one task.
StartSession(st, caps) ==
  LET a == AcquireTrack(OpenSession(st), caps)
      r == IF a.exc # "none" THEN a ELSE StartRecorder(a, caps)
  IN Continue(IF r.exc # "none" THEN r ELSE RenderLoop(r))

\* Variant: the rejected request also restarts the preview epoch.
RejectBusy_ResetsEpoch(st) ==
  [st EXCEPT !.renderStatus = MsgBusy, !.epochAge = 0]

\* The early returns, lines 145-156: a message and nothing else.
RejectNoPlan(st) == [st EXCEPT !.renderStatus = MsgNoPlan]
RejectNoCapture(st) == [st EXCEPT !.renderStatus = MsgNoCapture]
RejectBusy(st) == [st EXCEPT !.renderStatus = MsgBusy]

\* A click on the render button: renderVideo up to its first pending await.
RenderVideo ==
  /\ ~renderButtonDisabled
  /\ IF NoPlan THEN Commit(RejectNoPlan(Cur))
     ELSE IF NoCaptureStream THEN Commit(RejectNoCapture(Cur))
     ELSE IF GuardHeld THEN Commit(RejectBusy(Cur))
     ELSE \E caps \in Capabilities : Commit(StartSession(Cur, caps))
  /\ UNCHANGED <<planVars, envVars>>

\* The animation-frame callback of yieldToBrowser (lines 295-299) runs:
\* renderWithManualFrames resumes after line 259.
ManualResume ==
  /\ rpc = "manual"
  /\ Commit(Continue(ManualFrames([Cur EXCEPT !.sinkLog = <<>>])))
  /\ UNCHANGED <<planVars, envVars>>

\* The timer of waitForInterval (lines 301-305) fires:
\* renderWithTimedFrames resumes after line 282.
TimedResume ==
  /\ rpc = "timed"
  /\ Commit(Continue(TimedFrame(TimedHeld([Cur EXCEPT !.sinkLog = <<>>]))))
  /\ UNCHANGED <<planVars, envVars>>

----------------------------------------------------------------------------
(* The recorder callbacks, main.js lines 186-204.  Events delivered after  *)
(* the session's cleanup reach only the closure of the finished session,   *)
(* which nothing reads any more; they are not modelled.                    *)

SessionLive == rpc \in {"manual", "timed", "finalizing"}

\* The continuation of `await recordingPromise` runs as soon as the promise
\* settles while renderVideo is suspended there.
Wake(st) ==
  IF st.rpc = "finalizing" /\ st.recordingPromise # "pending"
  THEN AwaitRecording(st) ELSE st

\* chunks.push(event.data), line 189.  The program reads only whether the
\* array is empty (line 198), so chunks is its length counted up to 1.
Push(n) == Min(n + 1, 1)

\* `if (event.data && event.data.size > 0)`, line 188.
NonEmpty(size) == size > 0

\* recorder.ondataavailable, lines 187-191.
RecorderData ==
  /\ SessionLive
  /\ recState \in {"recording", "stopping"}
  /\ \E size \in {0, 1} :
       Commit([Cur EXCEPT !.chunks = IF NonEmpty(size) THEN Push(@) ELSE @])
  /\ UNCHANGED <<planVars, envVars>>

\* recorder.onerror, lines 192-196.
OnError(st) ==
  [st EXCEPT !.stopCalled = TRUE, !.recState = RecorderStop(@),
             !.recordingPromise = IF @ = "pending" THEN "fault" ELSE @]

RecorderError ==
  /\ SessionLive
  /\ recState \in {"recording", "stopping"}
  /\ ~faultSeen
  /\ Commit(Wake(OnError([Cur EXCEPT !.faultSeen = TRUE])))
  /\ UNCHANGED <<planVars, envVars>>

\* Variant: the emptiness test of line 198 is inverted.
OnStop_Inverted(st) ==
  [st EXCEPT !.recordingPromise =
     IF @ # "pending" THEN @
     ELSE IF st.chunks # 0 THEN "nodata" ELSE "blob"]

\* Variant: the emptiness test of line 198 is missing.
OnStop_NoEmptyTest(st) ==
  [st EXCEPT !.recordingPromise = IF @ # "pending" THEN @ ELSE "blob"]

\* recorder.onstop, lines 197-203.
OnStop(st) ==
  [st EXCEPT !.recordingPromise =
     IF @ # "pending" THEN @
     ELSE IF st.chunks = 0 THEN "nodata" ELSE "blob"]

\* The recorder's stop event, which follows recorder.stop().
RecorderStopped ==
  /\ SessionLive
  /\ recState = "stopping"
  /\ Commit(Wake(OnStop([Cur EXCEPT !.recState = "stopped"])))
  /\ UNCHANGED <<planVars, envVars>>

----------------------------------------------------------------------------
(* generatePlan, main.js lines 20-46.                                      *)

sessionVars == <<rpc, manualFrameSupport, track, liveTracks,
                 recState, chunks, stopCalled, recordingPromise, loopPlan,
                 totalFrames, segPos, frameIndex, renderedFrames, sinkCount,
                 sinkLog, drawnCount, loopReturn, status, trail, downloads,
                 lastPct,
                 faultSeen, activeSessions>>

\* A click on the generate button: lines 21-27, up to `await fetch`.
GeneratePlanStart ==
  /\ ~buttonDisabled
  /\ gpc = "idle"
  /\ buttonDisabled' = TRUE
  /\ renderButtonDisabled' = TRUE
  /\ renderStatus' = Text("")
  /\ gpc' = "fetch"
  /\ UNCHANGED <<plan, epochAge, isRenderingVideo, canvas, planCleared,
                 sessionVars, envVars>>

\* catch and finally, lines 40-45.
PlanFailed ==
  /\ plan' = NULL
  /\ planCleared' = (planCleared \/ isRenderingVideo)
  /\ buttonDisabled' = FALSE
  /\ gpc' = "idle"
  /\ UNCHANGED <<epochAge, renderButtonDisabled>>

\* lines 36-39 and finally.
PlanLoaded(p) ==
  /\ plan' = p
  /\ epochAge' = 0
  /\ renderButtonDisabled' = FALSE
  /\ buttonDisabled' = FALSE
  /\ gpc' = "idle"
  /\ UNCHANGED planCleared

\* The awaits of lines 27-36 have settled (fetch, then response.json());
\* nothing is written between them.  A plan of an ok response is stored;
\* a rejected fetch, an error payload or an unreadable body ends in the
\* catch block.
GeneratePlanSettled ==
  /\ gpc = "fetch"
  /\ \/ PlanFailed
     \/ \E p \in service : PlanLoaded(p)
  /\ UNCHANGED <<isRenderingVideo, renderStatus, canvas, sessionVars, envVars>>

----------------------------------------------------------------------------
(* drawFrame, main.js lines 56-73: the preview callback.                   *)

\* Variant: the elapsed time is not wrapped at the total duration.
Elapsed_NoWrap(age) == age

\* (timestamp - animationStart) % TOTAL_DURATION_MS, line 66.
Elapsed(age) == age % TOTAL_DURATION_MS
\* Math.floor(elapsed / SEGMENT_DURATION_MS), line 67.
SegmentIndex(elapsed) == elapsed \div SEGMENT_DURATION_MS

\* Math.max(0, Math.min(1, n / d)) as a numerator over d, line 70.
Clamp(n, d) == Max(0, Min(d, n))

\* Variant: the callback does not ask for another run.
requestAnimationFrame_Dropped(pending) == pending

\* requestAnimationFrame(drawFrame), lines 60 and 72: one more run pending.
requestAnimationFrame(pending) == pending + 1

\* One pending run of the callback is taken from the queue and executed.
DrawFrame ==
  /\ previewPending > 0
  /\ IF plan = NULL \/ isRenderingVideo
     THEN Commit([Cur EXCEPT !.canvas = Blank])
     ELSE LET age == IF epochAge = NoEpoch THEN 0 ELSE epochAge
              elapsed == Elapsed(age)
              index == SegmentIndex(elapsed)
          IN Commit(drawSegmentFrame(
               [Cur EXCEPT !.canvas = Blank, !.epochAge = age],
               plan, index,
               Clamp(elapsed - index * SEGMENT_DURATION_MS, SEGMENT_DURATION_MS),
               SEGMENT_DURATION_MS))
  /\ previewPending' = requestAnimationFrame(previewPending - 1)
  /\ UNCHANGED <<planVars, hasCaptureStream, service>>

\* Time passes: an epoch that is set ages by one segment duration.
Tick ==
  /\ epochAge # NoEpoch
  /\ epochAge + SEGMENT_DURATION_MS <= MaxTicks * SEGMENT_DURATION_MS
  /\ epochAge' = epochAge + SEGMENT_DURATION_MS
  /\ UNCHANGED <<plan, isRenderingVideo, buttonDisabled,
                 renderButtonDisabled, renderStatus, canvas, envVars, gpc,
                 planCleared, sessionVars>>

----------------------------------------------------------------------------
(* Specifications.                                                         *)

InitSession ==
  /\ rpc = "idle" /\ manualFrameSupport = FALSE /\ track = "none"
  /\ liveTracks = {} /\ recState = "none"
  /\ chunks = 0 /\ stopCalled = FALSE /\ recordingPromise = "pending"
  /\ loopPlan = NULL /\ totalFrames = 0 /\ segPos = 0 /\ frameIndex = 0
  /\ renderedFrames = 0 /\ sinkCount = 0 /\ sinkLog = <<>> /\ drawnCount = 0
  /\ loopReturn = NotReturned
  /\ status = "Idle" /\ trail = <<"Idle">> /\ downloads = 0 /\ lastPct = -1
  /\ faultSeen = FALSE /\ planCleared = FALSE
  /\ activeSessions = 0

\* The page as loaded: no plan, no epoch, the preview callback requested
\* (line 121).  The markup decides whether the render button starts enabled.
Init ==
  /\ plan = NULL /\ epochAge = NoEpoch /\ isRenderingVideo = FALSE
  /\ buttonDisabled = FALSE /\ renderButtonDisabled \in BOOLEAN
  /\ renderStatus = Text("") /\ canvas = Blank
  /\ hasCaptureStream \in BOOLEAN /\ previewPending = 1
  /\ service = Plans
  /\ gpc = "idle"
  /\ InitSession

Next ==
  \/ GeneratePlanStart
  \/ GeneratePlanSettled
  \/ DrawFrame
  \/ RenderVideo
  \/ ManualResume
  \/ TimedResume
  \/ RecorderData
  \/ RecorderError
  \/ RecorderStopped
  \/ Tick

Spec == Init /\ [][Next]_vars

\* The page with a plan of PLAN_SEGMENTS segments loaded and export offered,
\* on a browser with canvas.captureStream; the service answers with that
\* plan or fails.  Wall-clock time does not enter an export and is left out.
InitFull ==
  /\ plan = FullPlan /\ epochAge = 0 /\ isRenderingVideo = FALSE
  /\ buttonDisabled = FALSE /\ renderButtonDisabled = FALSE
  /\ renderStatus = Text("") /\ canvas = Blank
  /\ hasCaptureStream = TRUE /\ previewPending = 1
  /\ service = {FullPlan}
  /\ gpc = "idle"
  /\ InitSession

NextFull ==
  \/ GeneratePlanStart
  \/ GeneratePlanSettled
  \/ DrawFrame
  \/ RenderVideo
  \/ ManualResume
  \/ TimedResume
  \/ RecorderData
  \/ RecorderError
  \/ RecorderStopped

SpecFull == InitFull /\ [][NextFull]_vars

\* The preview alone, with the twenty-segment plan loaded: the callback runs
\* at any time 0 .. MaxNow after the epoch, on a surface that shows the
\* frame it rendered when the epoch began.
InitClock ==
  /\ plan = FullPlan /\ epochAge \in 0 .. MaxNow /\ isRenderingVideo = FALSE
  /\ buttonDisabled = FALSE /\ renderButtonDisabled = FALSE
  /\ renderStatus = Text("")
  /\ canvas = Frame(FullPlan, 0, 0, SEGMENT_DURATION_MS, PLAN_SEGMENTS)
  /\ hasCaptureStream = TRUE /\ previewPending = 1
  /\ service = {FullPlan}
  /\ gpc = "idle"
  /\ InitSession

SpecClock == InitClock /\ [][DrawFrame]_vars

\* The page on a browser with canvas.captureStream whose service answers
\* with one plan or fails, under a scheduler that runs every pending
\* animation-frame callback and timer callback and a recorder that emits its
\* stop event once it was told to stop.  Wall-clock time is left out.
FirstPlan == [id |-> 1, segments |-> NumSegments]

InitLive ==
  /\ plan = NULL /\ epochAge = NoEpoch /\ isRenderingVideo = FALSE
  /\ buttonDisabled = FALSE /\ renderButtonDisabled = FALSE
  /\ renderStatus = Text("") /\ canvas = Blank
  /\ hasCaptureStream = TRUE /\ previewPending = 1
  /\ service = {FirstPlan}
  /\ gpc = "idle"
  /\ InitSession

\* A step of ManualResume: the only step that, with renderWithManualFrames
\* suspended at line 259, renders frames or leaves that suspension.
ManualRuns ==
  /\ rpc = "manual"
  /\ rpc' # "manual" \/ renderedFrames' # renderedFrames

\* Weak fairness of the three callbacks the session waits for.  That of
\* ManualResume is written out, WF_v(A) being []<>~ENABLED <<A>>_v \/
\* []<><<A>>_v, with ENABLED <<ManualResume>>_vars replaced by its value
\* rpc = "manual": every resumption renders a frame.
Fairness ==
  /\ []<>(rpc # "manual") \/ []<><<ManualRuns>>_vars
  /\ WF_vars(TimedResume)
  /\ WF_vars(RecorderStopped)

SpecLive == InitLive /\ [][NextFull]_vars /\ Fairness

----------------------------------------------------------------------------
(* Properties of the export controller.                                    *)

\* A session is active from the step that takes the guard to the step that
\* runs the finally block.
SessionActive == isRenderingVideo

\* The step is an export request answered with message m.
Answered(m) == renderStatus' = m /\ renderStatus # m

\* The step opens a session: the trail of a new session begins.
SessionOpens == trail' # trail /\ ~(Len(trail') > Len(trail) /\ SubSeq(trail', 1, Len(trail)) = trail)

\* C1: at most one export session is active at any time, the guard flag
\* tells exactly whether one is, and while a session is active no step opens
\* another one: a request made during Capturing or Finalizing is answered
\* "already in progress" in the same step, with the guard held before it,
\* and leaves nothing behind that starts a capture later.
C1_SingleSession ==
  /\ [](activeSessions \in {0, 1} /\ (SessionActive <=> activeSessions = 1))
  /\ [][SessionActive => ~SessionOpens /\ activeSessions' <= activeSessions]_vars
  /\ [][Answered(MsgBusy) =>
         SessionActive /\ UNCHANGED <<rpc, recState, liveTracks, activeSessions>>]_vars

\* A request was rejected while a session is capturing.
C1_Witness ==
  SessionActive /\ status = "Capturing" /\ renderStatus = MsgBusy

\* C2: a request rejected because of the guard changes only the status
\* line: the guard stays held, the frame counter, the frame-delivery flag,
\* the track and the recorder of the running session and the preview epoch
\* are what they were, and the running session is where it was.
C2_RejectionTouchesNothing ==
  [][Answered(MsgBusy) =>
       /\ isRenderingVideo /\ isRenderingVideo'
       /\ UNCHANGED <<renderedFrames, manualFrameSupport, track, liveTracks,
                      recState, chunks, stopCalled, recordingPromise, epochAge>>
       /\ UNCHANGED <<plan, canvas, renderButtonDisabled, sessionVars>>]_vars

\* A rejected request during a session whose loop has rendered frames and
\* whose epoch has aged since the session began.
C2_Witness ==
  /\ isRenderingVideo /\ renderStatus = MsgBusy
  /\ renderedFrames > 0 /\ epochAge > 0 /\ recState = "recording"

\* The session has ended: it reached Complete or Failed.
SessionEnded == status \in {"Complete", "Failed"}

\* C3: the step that ends a session, whichever exit it takes, leaves the
\* session in Complete or Failed with no acquired track live, the guard free
\* and the render control enabled; and whenever the last session has ended
\* no track is live and the guard is free, the guard being held exactly
\* while a session is Capturing or Finalizing.
C3_CleanupOnEveryExit ==
  /\ [][(isRenderingVideo /\ ~isRenderingVideo') =>
         /\ status' \in {"Complete", "Failed"}
         /\ liveTracks' = {}
         /\ ~renderButtonDisabled'
         /\ rpc' = "idle"]_vars
  /\ [](SessionEnded =>
         liveTracks = {} /\ ~isRenderingVideo /\ activeSessions = 0)
  /\ [](isRenderingVideo <=> status \in {"Capturing", "Finalizing"})

\* A session that had a track and a running recorder failed on an exception
\* of the render loop.
C3_Witness ==
  /\ status = "Failed" /\ track # "none" /\ recState # "none"
  /\ renderStatus = MsgTypeError

\* The render loop of the last session returned.
LoopReturned == loopReturn # NotReturned

\* C4 as stated: FRAMES_PER_SEGMENT is 180, and a render loop that runs to
\* its end over twenty segments has emitted 20 * 180 = 3600 frames to the
\* capture sink, with either delivery strategy.
C4_EmitsExactlyTotalFrames ==
  /\ FRAMES_PER_SEGMENT = 180
  /\ LoopReturned =>
       totalFrames = 3600 /\ loopReturn.emitted = totalFrames

\* C4 amended: FRAMES_PER_SEGMENT is 180 and the loop renders the 3600
\* frames of twenty segments plus the terminal frame at progress 1, 3601
\* in all.  With manual delivery every rendered frame is pushed, so the
\* sink receives 3601 frames; with timed delivery the 3600 loop frames are
\* each held for one interval and the terminal frame is not.
C4_EmittedFrames ==
  /\ FRAMES_PER_SEGMENT = 180
  /\ LoopReturned =>
       /\ totalFrames = 3600
       /\ loopReturn.drawn = totalFrames + 1
       /\ loopReturn.emitted =
            IF manualFrameSupport THEN totalFrames + 1 ELSE totalFrames

\* A manual-delivery loop over twenty segments has returned.
C4_Witness ==
  LoopReturned /\ manualFrameSupport /\ loopReturn.emitted = 3601

\* The pair the k-th delivered frame must show (k counted from 0).
PairOf(k) == <<k \div FRAMES_PER_SEGMENT, k % FRAMES_PER_SEGMENT>>

\* The frames delivered by the latest step of the loop are the frames
\* number sinkCount - Len(sinkLog) .. sinkCount - 1 of the session.
NumberOf(i) == sinkCount - Len(sinkLog) + i - 1

\* The step ends the pacing delay of a frame of the timed loop.
IntervalElapses == rpc = "timed" /\ sinkCount' = sinkCount + 1

\* C5: the k-th frame delivered to the sink, k < totalFrames, shows the
\* pair (k div framesPerSegment, k mod framesPerSegment), so the pairs
\* arrive in increasing order, each once and none skipped, whatever ran
\* between the suspension points: the frames pushed by the manual loop show
\* these pairs, the surface the fixed-rate source has sampled when a pacing
\* delay ends shows the pair of that delay, the frames delivered while the
\* loop is suspended are exactly those before the pair it renders next,
\* and a loop that returns has delivered all totalFrames pairs.
C5_FramesInOrder ==
  /\ [](\A i \in 1 .. Len(sinkLog) :
          NumberOf(i) < totalFrames => sinkLog[i] = PairOf(NumberOf(i)))
  /\ [][IntervalElapses => Shown(canvas) = PairOf(sinkCount)]_vars
  /\ [](rpc \in {"manual", "timed"} =>
          /\ sinkCount = segPos * FRAMES_PER_SEGMENT + frameIndex
          /\ sinkCount <= totalFrames)
  /\ [](LoopReturned => loopReturn.emitted >= totalFrames)

\* C6: a session with manual delivery that reaches its end with the plan
\* never cleared, no recorder fault and a non-empty chunk received has gone
\* Idle, Capturing, Finalizing, Complete, has offered exactly one download,
\* and its loop returned with the progress at 100%.  The recorder is told
\* to stop only when the loop has returned (it is recording while the loop
\* runs, unless a fault stopped it), and a download exists only after the
\* recorder's stop event.
C6_ManualExportCompletes ==
  /\ (SessionEnded /\ manualFrameSupport /\ recState # "none"
        /\ ~planCleared /\ ~faultSeen /\ chunks > 0) =>
       /\ trail = <<"Idle", "Capturing", "Finalizing", "Complete">>
       /\ downloads = 1
       /\ loopReturn.pct = 100
       /\ renderStatus \in {MsgReady, MsgNoPlan, MsgNoCapture, Text("")}
  /\ (rpc \in {"manual", "timed"} /\ ~faultSeen) =>
       recState = "recording" /\ ~stopCalled
  /\ downloads > 0 => recState = "stopped" /\ status = "Complete"

\* A manual export has completed and its download is announced.
C6_Witness ==
  /\ status = "Complete" /\ manualFrameSupport /\ downloads = 1
  /\ renderStatus = MsgReady /\ chunks > 0

\* C7: while no plan is loaded and no session is active, no step creates a
\* session: an export request is answered with the no-plan message in the
\* same step, and that step finds the guard free, leaves it free and
\* changes nothing but the status line.
C7_NoPlanRejected ==
  /\ [][(plan = NULL /\ ~isRenderingVideo) =>
         ~isRenderingVideo' /\ UNCHANGED <<sessionVars, planCleared>>]_vars
  /\ [][Answered(MsgNoPlan) =>
         /\ plan = NULL
         /\ ~isRenderingVideo /\ ~isRenderingVideo'
         /\ UNCHANGED <<sessionVars, planCleared, planVars, envVars,
                        epochAge, canvas, renderButtonDisabled>>]_vars

\* An export request was made without a plan and rejected.
C7_Witness ==
  renderStatus = MsgNoPlan /\ plan = NULL /\ ~isRenderingVideo

\* The step ends a session that had reached Finalizing.
EndsFinalizing ==
  /\ isRenderingVideo /\ ~isRenderingVideo'
  /\ Len(trail') >= 2 /\ trail'[Len(trail') - 1] = "Finalizing"

\* C8: a session that ends from Finalizing ends Complete, with the download
\* offered and announced, exactly if a non-empty chunk was received and no
\* fault was reported; it ends Failed without a download otherwise, and
\* with the empty-capture message when no chunk was received and no fault
\* was reported.
C8_OutcomeByChunks ==
  [][EndsFinalizing =>
       /\ status' = "Complete" <=> (chunks' > 0 /\ ~faultSeen')
       /\ status' = "Complete" => downloads' = 1 /\ renderStatus' = MsgReady
       /\ status' # "Complete" => status' = "Failed" /\ downloads' = 0
       /\ (chunks' = 0 /\ ~faultSeen') => renderStatus' = MsgNoData]_vars

\* A session whose recorder stopped without any data has failed with the
\* empty-capture message.
C8_Witness ==
  /\ status = "Failed" /\ renderStatus = MsgNoData /\ chunks = 0
  /\ recState = "stopped" /\ downloads = 0

\* C9: a session in which the recorder reported a fault ends Failed with
\* the fault's message as the status, offers no download, has told the
\* recorder to stop, and its cleanup has stopped the track, freed the guard
\* and reset the epoch.
C9_FaultFailsSession ==
  [][(isRenderingVideo /\ ~isRenderingVideo' /\ faultSeen') =>
       /\ status' = "Failed"
       /\ renderStatus' = MsgFault
       /\ downloads' = 0
       /\ recState' # "recording"
       /\ liveTracks' = {} /\ epochAge' = 0]_vars

\* C10: on a canvas without captureStream no step changes anything of a
\* session, and a request is answered with the capture-unavailable message;
\* a request that finds no video track or no recorder is answered with that
\* message in the step that made it, which starts no recorder, does not
\* touch the surface, and ends with the guard free, no track live and the
\* session Failed without having been Capturing.
C10_NoSourceFailsCleanly ==
  /\ [][~hasCaptureStream =>
         /\ ~isRenderingVideo' /\ UNCHANGED sessionVars
         /\ renderStatus' # renderStatus =>
               renderStatus' \in {MsgNoPlan, MsgNoCapture, Text("")}]_vars
  /\ [][Answered(MsgNoCapture) =>
         ~hasCaptureStream /\ UNCHANGED <<isRenderingVideo, canvas, sessionVars>>]_vars
  /\ [][(Answered(MsgNoTrack) \/ Answered(MsgNoRecorder)) =>
         /\ ~isRenderingVideo /\ ~isRenderingVideo'
         /\ canvas' = canvas
         /\ recState' = "none" /\ loopReturn' = NotReturned
         /\ totalFrames' = 0
         /\ liveTracks' = {}
         /\ trail' = <<"Idle", "Failed">>
         /\ downloads' = 0]_vars

\* A request found a video track but no recorder while the surface showed
\* a frame.
C10_Witness ==
  /\ renderStatus = MsgNoRecorder /\ track # "none" /\ liveTracks = {}
  /\ ~isRenderingVideo /\ status = "Failed" /\ canvas.kind = "frame"

\* C11: exactly one run of the preview callback is pending in every
\* reachable state, with or without a plan, during an export and after an
\* export that completed or failed with any message: each run of drawFrame
\* takes the pending run and schedules one, and no other step touches it.
C11_PreviewAlwaysPending == previewPending = 1

\* The preview callback has run after an export failed on an exception of
\* its render loop, and its next run is pending.
C11_Witness ==
  /\ status = "Failed" /\ renderStatus = MsgTypeError
  /\ canvas = Blank /\ previewPending = 1

\* C12: while a session is active the surface is written by the export
\* loop only, so while the loop is suspended the surface shows exactly the
\* frame the loop rendered last: the frame whose pacing delay is running in
\* the timed loop, the last frame of the block just pushed in the manual
\* loop.
C12_SurfaceOwnedByExport ==
  /\ rpc = "timed" =>
       /\ Shown(canvas) = <<segPos, frameIndex>>
       /\ canvas.den = FRAMES_PER_SEGMENT
  /\ rpc = "manual" =>
       /\ Shown(canvas) = PairOf(renderedFrames - 1)
       /\ canvas.den = FRAMES_PER_SEGMENT

\* C13: when the render loop has returned, which is when the controller
\* tells the recorder to stop, the loop has rendered the terminal frame
\* after its totalFrames loop frames and has delivered it as well: pushed
\* to the track by the manual loop, held for a frame interval by the timed
\* loop.
C13_TerminalFrameDelivered ==
  LoopReturned =>
    /\ loopReturn.drawn = totalFrames + 1
    /\ loopReturn.emitted = totalFrames + 1

\* The step stores a plan the service answered with.
PlanLoadSucceeds == gpc = "fetch" /\ gpc' = "idle" /\ plan' # NULL

\* The step ends a session.
SessionEnds == isRenderingVideo /\ ~isRenderingVideo'

\* The step is a run of the preview callback that renders a segment.
PreviewRenders ==
  /\ ~isRenderingVideo /\ ~isRenderingVideo'
  /\ canvas' # canvas /\ canvas'.kind = "frame"

\* C14: a successful plan load and the end of a session, Complete or
\* Failed, each restart the preview epoch (its age is 0 after the step), and
\* a preview frame renders the segment the age of the epoch selects, so a
\* preview frame rendered before the new epoch is one segment duration old
\* shows segment 0 from its beginning, whatever the previous epoch had
\* reached.
C14_EpochRestarts ==
  /\ [][(PlanLoadSucceeds \/ SessionEnds) => epochAge' = 0]_vars
  /\ [][PreviewRenders =>
         /\ canvas'.seg = SegmentIndex(Elapsed(Max(epochAge, 0)))
         /\ epochAge < SEGMENT_DURATION_MS =>
               canvas'.seg = 0 /\ canvas'.num = Max(epochAge, 0)]_vars

\* After a completed export the preview shows segment 0 from its beginning
\* in the new epoch.
C14_Witness ==
  /\ status = "Complete" /\ ~isRenderingVideo /\ epochAge = 0
  /\ canvas = Frame(plan, 0, 0, SEGMENT_DURATION_MS, Len_render_segments(plan))

\* The k-th frame (from 0) an export over `total` loop frames renders:
\* segment k div framesPerSegment at progress (k mod framesPerSegment) /
\* framesPerSegment, and after them the last segment at progress 1.
RenderedPair(k, total) ==
  IF k < total THEN PairOf(k)
  ELSE <<total \div FRAMES_PER_SEGMENT - 1, FRAMES_PER_SEGMENT>>

\* The step is one in which the timed loop rendered a frame and is still
\* inside the session.
TimedRenders ==
  /\ rpc' \in {"timed", "finalizing"} /\ ~manualFrameSupport'
  /\ drawnCount' = drawnCount + 1

\* C15: both loops render the same sequence onto the surface: the k-th
\* frame either loop renders is RenderedPair(k, totalFrames), over the same
\* denominator framesPerSegment.  The timed loop renders one frame per step,
\* which is on the surface after the step; the manual loop pushes every
\* frame it renders, so the frames pushed in its last step are the frames
\* it rendered; and both have rendered totalFrames + 1 frames on return.
C15_SameFramesBothStrategies ==
  /\ [][TimedRenders =>
         /\ Shown(canvas') = RenderedPair(drawnCount, totalFrames')
         /\ canvas'.den = FRAMES_PER_SEGMENT]_vars
  /\ []((manualFrameSupport /\ rpc \in {"manual", "finalizing"}) =>
         /\ drawnCount = sinkCount
         /\ \A i \in 1 .. Len(sinkLog) :
              sinkLog[i] = RenderedPair(NumberOf(i), totalFrames))
  /\ [](LoopReturned => loopReturn.drawn = totalFrames + 1)

\* The timed loop over twenty segments has rendered its terminal frame.
C15_Witness ==
  /\ rpc = "finalizing" /\ ~manualFrameSupport /\ drawnCount = 3601
  /\ Shown(canvas) = <<19, 180>>

\* C16: with the twenty-segment plan loaded, a run of the preview callback
\* at any whole millisecond `now - epoch` >= 0 renders a segment: the one
\* with index floor(((now - epoch) mod 120000) / 6000), which lies in
\* 0..19, at progress (elapsed - index * 6000) / 6000, which lies in
\* [0, 1); so the index is 19 in the last six seconds of a run through the
\* timeline and 0 again in the six seconds after it.
C16_TimelineScheduler ==
  [][LET elapsed == epochAge % 120000
         index == elapsed \div 6000
     IN /\ canvas'.kind = "frame"
        /\ canvas'.seg = index /\ index \in 0 .. 19
        /\ canvas'.num = elapsed - index * 6000 /\ canvas'.den = 6000
        /\ 0 <= canvas'.num /\ canvas'.num < canvas'.den
        /\ canvas'.total = 20
        /\ (elapsed >= 114000 => index = 19)
        /\ (epochAge >= 120000 /\ epochAge < 126000 => index = 0)]_vars

\* The callback ran in the last millisecond of the second run through the
\* timeline and rendered the end of segment 19.
C16_Witness ==
  /\ epochAge = 239999 /\ canvas.kind = "frame"
  /\ canvas.seg = 19 /\ canvas.num = 5999

\* C17: a session that renders uses one strategy, fixed when its track was
\* acquired: the manual loop runs exactly on the zero-rate track with frame
\* requests, the timed loop exactly on the fixed-rate track; frames are
\* pushed only by a manual session; the only track live is the track in
\* use, so the zero-rate track a fallback replaced has been stopped; and
\* while the session is active neither the flag, the track nor the loop
\* changes.
C17_TwoWayBranch ==
  /\ [](/\ rpc = "manual" => manualFrameSupport /\ track = "zero"
        /\ rpc = "timed" => ~manualFrameSupport /\ track = "fixed"
        /\ isRenderingVideo => (manualFrameSupport <=> track = "zero")
        /\ isRenderingVideo => liveTracks = {track}
        /\ sinkLog # <<>> => manualFrameSupport)
  /\ [][(isRenderingVideo /\ isRenderingVideo') =>
         /\ UNCHANGED <<manualFrameSupport, track, liveTracks>>
         /\ rpc \in {"manual", "timed"} => rpc' \in {rpc, "finalizing"}]_vars

\* A session runs the paced loop on the fixed-rate track, the only live
\* track.
C17_Witness ==
  /\ rpc = "timed" /\ renderedFrames > 1
  /\ track = "fixed" /\ liveTracks = {"fixed"} /\ ~manualFrameSupport

\* C18: a session that has entered Capturing eventually is Complete or
\* Failed with the guard free, when pending animation-frame and timer
\* callbacks eventually run and a recorder told to stop eventually emits
\* its stop event; and a session ends in no other way: the step that frees
\* the guard is a step of the session's own loop or of its recorder's
\* callbacks, and it leaves the session Complete or Failed.
C18_SessionTerminates ==
  /\ (status = "Capturing") ~>
       (status \in {"Complete", "Failed"} /\ ~isRenderingVideo)
  /\ [][SessionEnds =>
         /\ status' \in {"Complete", "Failed"}
         /\ rpc \in {"manual", "timed", "finalizing"}
         /\ UNCHANGED <<planVars, envVars>>]_vars

\* A session went through Capturing and Finalizing and then failed.
C18_Witness ==
  /\ trail = <<"Idle", "Capturing", "Finalizing", "Failed">>
  /\ ~isRenderingVideo /\ rpc = "idle"

\* C19: the manual loop is suspended only after a whole block of FPS frames,
\* with the progress of that block published and every rendered frame
\* already signalled to the track: for 3600 frames its suspension points are
\* the 120 multiples of FPS, and one resumption renders exactly the next
\* FPS frames.  The timed loop is suspended after every single frame: one
\* resumption renders exactly one frame, and every frame rendered before
\* the current one had its pacing delay.
C19_SuspensionPoints ==
  /\ [](rpc = "manual" =>
         /\ totalFrames = 3600
         /\ renderedFrames \in {FPS * k : k \in 1 .. 120}
         /\ sinkCount = renderedFrames /\ drawnCount = renderedFrames
         /\ lastPct = Percentage(renderedFrames, totalFrames)
         /\ (renderStatus.pct # -1 => renderStatus.pct = lastPct))
  /\ [](rpc = "timed" =>
         /\ renderedFrames \in 1 .. totalFrames
         /\ drawnCount = renderedFrames
         /\ sinkCount = renderedFrames - 1)
  /\ [][/\ ((rpc = "manual" /\ rpc' = "manual") =>
              renderedFrames' \in {renderedFrames, renderedFrames + FPS})
         /\ ((rpc = "timed" /\ rpc' = "timed") =>
              renderedFrames' \in {renderedFrames, renderedFrames + 1})]_vars

\* The manual loop is at its 120th suspension point, all 3600 frames
\* rendered and signalled.
C19_Witness ==
  /\ rpc = "manual" /\ renderedFrames = 3600
  /\ sinkCount = 3600 /\ lastPct = 100

\* The last percentage a session reported, seen at the step that ends it:
\* the one its loop returned with, or the one on record when the loop was
\* left by an exception.
LastReport == IF loopReturn' # NotReturned THEN loopReturn'.pct ELSE lastPct

\* C20: the percentage an export reports is an integer in 0 .. 100, is 0 at
\* the first report of the loop, never decreases from one report to the
\* next and is 100 at the session's last report; the step that ends the
\* session leaves the success message or a failure message on the status
\* channel, not a progress line.
C20_ProgressReports ==
  /\ [](lastPct # -1 => lastPct \in 0 .. 100)
  /\ [](plan # NULL => BeginLoop(Cur).lastPct = 0)
  /\ [][/\ ((SessionOpens /\ rpc' = "timed") => lastPct' = 0)
         /\ ((lastPct # -1 /\ lastPct' # -1) => lastPct' >= lastPct)
         /\ (SessionEnds =>
               /\ LastReport \in {-1, 100}
               /\ renderStatus'.pct = -1
               /\ status' = "Complete" <=> renderStatus' = MsgReady)]_vars

\* C21: while a render loop is suspended the module-level plan is the plan
\* the loop began with, no step of an active session's lifetime replaces or
\* clears the plan, every frame a loop step leaves on the surface and its
\* overlay are of that plan, and no session ends with the message of the
\* TypeError that a read of the cleared plan throws.
C21_PlanFixedDuringSession ==
  /\ [](rpc \in {"manual", "timed"} => plan = loopPlan)
  /\ [][/\ ((isRenderingVideo /\ isRenderingVideo') => plan' = plan)
         /\ ((rpc \in {"manual", "timed"} /\ drawnCount' > drawnCount) =>
               /\ canvas'.kind = "frame"
               /\ canvas'.plan = loopPlan.id
               /\ canvas'.total = Len_render_segments(loopPlan))
         /\ (SessionEnds => renderStatus' # MsgTypeError)]_vars

\* The recorder reports its fault while the render loop is suspended.
FaultInLoop == rpc \in {"manual", "timed"} /\ ~faultSeen /\ faultSeen'

\* C22: the recording promise of a session settles once and keeps its
\* outcome; a recorder fault raised while the render loop is suspended leaves
\* the loop and the status channel as they are and the session Capturing; a
\* session in which the recorder faulted ends only after its loop has
\* returned with every frame rendered, Failed with the fault's message; and
\* a session in which the recorder faulted is never Complete.
C22_OutcomeDecidedOnce ==
  /\ [](faultSeen => status # "Complete" /\ recordingPromise # "blob")
  /\ [][/\ ((isRenderingVideo /\ isRenderingVideo'
              /\ recordingPromise # "pending") =>
               recordingPromise' = recordingPromise)
         /\ (FaultInLoop =>
               /\ rpc' = rpc /\ status' = "Capturing"
               /\ recordingPromise' = "fault"
               /\ UNCHANGED <<isRenderingVideo, renderStatus, segPos,
                              frameIndex, renderedFrames, sinkCount>>)
         /\ ((SessionEnds /\ faultSeen') =>
               /\ loopReturn' # NotReturned
               /\ loopReturn'.drawn = totalFrames + 1
               /\ status' = "Failed" /\ renderStatus' = MsgFault)]_vars

====
